---- MODULE Spec2Model ----
(***************************************************************************)
(* Wine-quality notebook (src/notebooks/mlflow-end-to-end-example.py):     *)
(* the experiment recorder, the registry client, the hyperparameter sweep, *)
(* the dataset split and the model wrapper, as state machines.             *)
(*                                                                         *)
(* The tracking store, the model registry, hyperopt and scikit-learn are   *)
(* external; each is modelled at the call site that uses it, with the      *)
(* behaviour of the call as the library performs it.                       *)
(***************************************************************************)
EXTENDS Integers, Sequences, FiniteSets, TLC

VARIABLES
  \* ---- tracking store and MLflowExperiment.run_experiment ----
  runs,        \* the experiment's Run records, a sequence; a run's id is its index
  clock,       \* the client clock start_run stamps start_time with
  pc,          \* position of the current run_experiment call
  cur,         \* id of the run the current call opened (0: none)
  ret,         \* value run_experiment returned (0: none)
  calls,       \* run_experiment calls made so far
  \* ---- model registry and the notebook's registry cells ----
  versions,    \* versions of the registered model, a sequence; index = version number
  aliases,     \* set of <<alias, version>> pairs of the registered model
  globals,     \* names bound in the notebook's top-level namespace
  nbpc,        \* the notebook cell about to run
  regpc,       \* position inside MLflowExperiment.register_model
  reg_arg,     \* run_id argument of the register_model call in progress
  reg_version, \* the call's local model_version (0: none)
  reg_ret,     \* version returned by the last register_model call (0: none)
  model_version,      \* top-level name model_version (0: unbound)
  new_model_version,  \* top-level name new_model_version (0: unbound)
  loaded,      \* version the last load of models:/<name>/production resolved to
  nbruns,      \* times the notebook has been run from the top
  \* ---- hyperparameter sweep ----
  swpc,        \* position of the sweep cells
  dispatched,  \* trials that have left Pending
  running,     \* trials in the Running state
  watch,       \* state of one arbitrary trial of the budget
  trial_auc,   \* auc the watched trial logged (0: none)
  best_loss,   \* least loss among the succeeded trials, as fmin tracks it (1: none)
  ok_auc,      \* greatest auc logged by a run of a succeeded trial (0: none)
  failed_auc,  \* greatest auc logged by a run of a failed trial (0: none)
  other_auc,   \* greatest auc logged by a run that is no sweep trial (0: none)
  best_run,    \* the record line 495 selects
  \* ---- WineDataProcessor.split_data ----
  sppc,        \* position inside split_data
  rows,        \* number of rows of self.data
  test_size,   \* numerator of test_size over Denom
  val_size,    \* numerator of val_size over Denom
  X_train, X_rem, X_val, X_test,   \* row positions of self.data, in order
  \* ---- WineQualityModel ----
  estimator,   \* instance -> the estimator object it wraps
  fitted,      \* estimator object -> whether fit has run on it
  trained,     \* instance -> whether train was called on it
  evaluated    \* instance -> outcome of its last evaluate

trackVars == <<runs, clock, pc, cur, ret, calls>>
regVars == <<versions, aliases, globals, nbpc, regpc, reg_arg, reg_version, reg_ret,
             model_version, new_model_version, loaded, nbruns>>
sweepVars == <<swpc, dispatched, running, watch, trial_auc, best_loss,
               ok_auc, failed_auc, other_auc, best_run>>
splitVars == <<sppc, rows, test_size, val_size, X_train, X_rem, X_val, X_test>>
modelVars == <<estimator, fitted, trained, evaluated>>
vars == <<trackVars, regVars, sweepVars, splitVars, modelVars>>
notTrack == <<regVars, sweepVars, splitVars, modelVars>>
notReg == <<trackVars, sweepVars, splitVars, modelVars>>
notSweep == <<trackVars, regVars, splitVars, modelVars>>
notSplit == <<trackVars, regVars, sweepVars, modelVars>>
notModel == <<trackVars, regVars, sweepVars, splitVars>>

\* Each specification below drives one component; the others rest in these states.
TrackIdle ==
  /\ runs = <<>> /\ clock = 0 /\ pc = "idle" /\ cur = 0 /\ ret = 0 /\ calls = 0
RegIdle ==
  /\ versions = <<>> /\ aliases = {} /\ globals = {} /\ nbpc = "main"
  /\ regpc = "idle" /\ reg_arg = 0 /\ reg_version = 0 /\ reg_ret = 0
  /\ model_version = 0 /\ new_model_version = 0 /\ loaded = 0 /\ nbruns = 0
SweepIdle ==
  /\ swpc = "idle" /\ dispatched = 0 /\ running = 0
  /\ watch = "Pending" /\ trial_auc = 0 /\ best_loss = 1
  /\ ok_auc = 0 /\ failed_auc = 0 /\ other_auc = 0 /\ best_run = [kind |-> "none", auc |-> 0]
SplitIdle ==
  /\ sppc = "idle" /\ rows = 0 /\ test_size = 0 /\ val_size = 0
  /\ X_train = <<>> /\ X_rem = <<>> /\ X_val = <<>> /\ X_test = <<>>
ModelIdle ==
  /\ estimator = <<>> /\ fitted = <<>> /\ trained = <<>> /\ evaluated = <<>>

(***************************************************************************)
(* Experiment recorder: MLflowExperiment.run_experiment                    *)
(***************************************************************************)
MaxCalls == 2      \* run_experiment calls explored
MaxOthers == 1     \* runs other clients of the experiment start meanwhile
MaxClock == 1      \* clock ticks explored

RunName == "untuned_random_forest"
RunNames == {RunName, "xgboost_models"}

\* mlflow.start_run(run_name=...): a new Run record, active, stamped with the clock.
NewRun(name, by) ==
  [name |-> name, start |-> clock, status |-> "RUNNING", by |-> by,
   params |-> {}, metrics |-> {}, artifacts |-> {}]

\* Leaving the with block: ActiveRun.__exit__ ends the run, FINISHED on a normal
\* exit and FAILED when an exception leaves the block.
WithExitLeak(rs, id, ok) ==
  IF ok THEN [rs EXCEPT ![id].status = "FINISHED"] ELSE rs
WithExit(rs, id, ok) ==
  [rs EXCEPT ![id].status = IF ok THEN "FINISHED" ELSE "FAILED"]

\* mlflow.search_runs(filter_string='tags.mlflow.runName = "<name>"'): the matching
\* runs of the experiment, newest start_time first; .iloc[0] is one of the runs
\* with the greatest start_time (run ids are random, so ties fall either way).
search_runs_first(rs, name) ==
  LET match == {i \in 1..Len(rs) : rs[i].name = name}
  IN {i \in match : \A j \in match : rs[j].start <= rs[i].start}

\* line 126 as it would be if start_run resumed the run already carrying the name.
start_run_reuse ==
  /\ UNCHANGED notTrack
  /\ pc \in {"idle", "returned", "raised"}
  /\ calls < MaxCalls
  /\ LET mine == {i \in 1..Len(runs) : runs[i].by = "self"}
     IN IF mine = {}
        THEN /\ runs' = Append(runs, NewRun(RunName, "self"))
             /\ cur' = Len(runs) + 1
        ELSE \E i \in mine : /\ runs' = [runs EXCEPT ![i] = NewRun(RunName, "self")]
                             /\ cur' = i
  /\ ret' = 0
  /\ calls' = calls + 1
  /\ pc' = "train"
  /\ UNCHANGED clock

\* line 126: entering the with block.
start_run ==
  /\ UNCHANGED notTrack
  /\ pc \in {"idle", "returned", "raised"}
  /\ calls < MaxCalls
  /\ runs' = Append(runs, NewRun(RunName, "self"))
  /\ cur' = Len(runs) + 1
  /\ ret' = 0
  /\ calls' = calls + 1
  /\ pc' = "train"
  /\ UNCHANGED clock

\* An exception inside the with block: __exit__ runs, the exception propagates.
Raise ==
  /\ runs' = WithExit(runs, cur, FALSE)
  /\ pc' = "raised"
  /\ UNCHANGED <<clock, cur, ret, calls>>

\* line 127
train_step ==
  /\ UNCHANGED notTrack
  /\ pc = "train"
  /\ \/ pc' = "evaluate" /\ UNCHANGED <<runs, clock, cur, ret, calls>>
     \/ Raise

\* line 128
evaluate_step ==
  /\ UNCHANGED notTrack
  /\ pc = "evaluate"
  /\ \/ pc' = "log_param" /\ UNCHANGED <<runs, clock, cur, ret, calls>>
     \/ Raise

\* line 130: logged under the active run.
log_param ==
  /\ UNCHANGED notTrack
  /\ pc = "log_param"
  /\ \/ /\ runs' = [runs EXCEPT ![cur].params = @ \cup {"n_estimators"}]
        /\ pc' = "log_metric"
        /\ UNCHANGED <<clock, cur, ret, calls>>
     \/ Raise

\* line 131
log_metric ==
  /\ UNCHANGED notTrack
  /\ pc = "log_metric"
  /\ \/ /\ runs' = [runs EXCEPT ![cur].metrics = @ \cup {"auc"}]
        /\ pc' = "log_model"
        /\ UNCHANGED <<clock, cur, ret, calls>>
     \/ Raise

\* line 132 (WineQualityModel.log_model, lines 106-117)
log_model ==
  /\ UNCHANGED notTrack
  /\ pc = "log_model"
  /\ \/ /\ runs' = [runs EXCEPT ![cur].artifacts = @ \cup {"random_forest_model"}]
        /\ pc' = "search"
        /\ UNCHANGED <<clock, cur, ret, calls>>
     \/ Raise

\* line 134: the lookup by run name, then return from inside the with block.
return_run_id ==
  /\ UNCHANGED notTrack
  /\ pc = "search"
  /\ \/ /\ \E id \in search_runs_first(runs, RunName) : ret' = id
        /\ runs' = WithExit(runs, cur, TRUE)
        /\ pc' = "returned"
        /\ UNCHANGED <<clock, cur, calls>>
     \/ Raise

\* Another client of the same experiment starts a run (the notebook itself does so
\* at lines 257 and 465; any user of the experiment may).
other_start_run ==
  /\ UNCHANGED notTrack
  /\ Cardinality({i \in 1..Len(runs) : runs[i].by = "other"}) < MaxOthers
  /\ \E name \in RunNames : runs' = Append(runs, NewRun(name, "other"))
  /\ UNCHANGED <<clock, pc, cur, ret, calls>>

\* Time passes.
Tick ==
  /\ UNCHANGED notTrack
  /\ clock < MaxClock
  /\ clock' = clock + 1
  /\ UNCHANGED <<runs, pc, cur, ret, calls>>

InitTrack == TrackIdle /\ RegIdle /\ SweepIdle /\ SplitIdle /\ ModelIdle

NextTrack ==
  \/ start_run
  \/ train_step
  \/ evaluate_step
  \/ log_param
  \/ log_metric
  \/ log_model
  \/ return_run_id
  \/ other_start_run
  \/ Tick

SpecTrack == InitTrack /\ [][NextTrack]_vars

\* C1: once run_experiment has returned or propagated its exception, no run that
\* run_experiment opened is still active.
C1_RunClosedOnEveryExit ==
  pc \in {"idle", "returned", "raised"} =>
    \A i \in 1..Len(runs) : runs[i].by = "self" => runs[i].status # "RUNNING"

\* A call that raised part-way and a call that returned, both with their run closed.
C1_Witness ==
  /\ pc = "raised"
  /\ calls = 2
  /\ runs[cur].status = "FAILED"
  /\ \E i \in 1..Len(runs) : runs[i].by = "self" /\ runs[i].status = "FINISHED"

\* C2: the identifier run_experiment returns is that of the run this call created
\* and logged its parameter, metric and artifact under.
C2_ReturnsOwnRun ==
  pc = "returned" =>
    /\ ret = cur
    /\ runs[ret].params = {"n_estimators"}
    /\ runs[ret].metrics = {"auc"}
    /\ runs[ret].artifacts = {"random_forest_model"}

\* C11: every run_experiment call creates a Run record of its own, with an
\* identifier no earlier record has, and no step of a call changes a record other
\* than the one that call opened: a second call neither reuses nor overwrites the
\* first call's run.
C11_EachCallCreatesItsOwnRun ==
  [][/\ calls' = calls + 1 =>
          /\ Len(runs') = Len(runs) + 1
          /\ cur' = Len(runs')
          /\ cur' # cur
          /\ runs'[cur'].by = "self"
          /\ SubSeq(runs', 1, Len(runs)) = runs
     /\ Len(runs') >= Len(runs)
     /\ \A i \in 1..Len(runs) : i # cur' => runs'[i] = runs[i]
     /\ Cardinality({i \in 1..Len(runs') : runs'[i].by = "self"}) = calls']_vars

\* Two calls have returned; each has its own record with its own logs.
C11_Witness ==
  /\ calls = 2
  /\ pc = "returned"
  /\ \E i, j \in 1..Len(runs) :
       /\ i # j /\ j = cur
       /\ runs[i].by = "self" /\ runs[j].by = "self"
       /\ runs[i].status = "FINISHED" /\ runs[j].status = "FINISHED"
       /\ runs[i].metrics = {"auc"} /\ runs[j].metrics = {"auc"}

(***************************************************************************)
(* Model registry client: MLflowExperiment.register_model and the          *)
(* notebook's registration, transition and load cells                      *)
(***************************************************************************)
MaxRunIds == 2     \* distinct run ids handed to the registration calls
MaxReruns == 1     \* times the notebook is run again from the top

RunIds == 1..MaxRunIds

\* mlflow.register_model(f"runs:/{run_id}/<path>", model_name): a new version, numbered
\* after the last one, bound to that run's artifact; stage None.
mlflow_register_model_wrong_run(vs, run_id, path) ==
  Append(vs, [run |-> IF run_id = 1 THEN MaxRunIds ELSE run_id - 1, path |-> path,
              stage |-> "None"])
mlflow_register_model(vs, run_id, path) ==
  Append(vs, [run |-> run_id, path |-> path, stage |-> "None"])

\* client.set_registered_model_alias(name, alias, version): the alias is moved to
\* the version, leaving whichever version held it.
set_alias_keep_old(as, alias, v) == as \cup {<<alias, v>>}
set_registered_model_alias(as, alias, v) ==
  {a \in as : a[1] # alias} \cup {<<alias, v>>}

\* client.transition_model_version_stage(name, version, stage): that version's
\* stage is set; the other versions keep theirs (archive_existing_versions is off).
transition_model_version_stage(vs, v, stage) ==
  [vs EXCEPT ![v].stage = stage]

\* "models:/<model_name>/production": a models:/<name>/<suffix> URI whose suffix is
\* neither a number nor "latest" names a stage; it resolves to the latest version in
\* that stage, and the load raises when there is none (0 here).
production_version(vs) ==
  LET prod == {v \in 1..Len(vs) : vs[v].stage = "Production"}
  IN IF prod = {} THEN 0 ELSE CHOOSE v \in prod : \A w \in prod : w <= v

\* Versions carrying the Production label, as a stage or as the alias "production".
HoldsStage(vs, stage) == {v \in 1..Len(vs) : vs[v].stage = stage}
HoldsAlias(as, alias) == {a[2] : a \in {b \in as : b[1] = alias}}

\* line 165 -> line 138: experiment.register_model(run_id) creates the version.
register_model_create ==
  /\ UNCHANGED notReg
  /\ nbpc = "main" /\ regpc = "idle"
  /\ \E run_id \in RunIds :
       /\ reg_arg' = run_id
       /\ versions' = mlflow_register_model(versions, run_id, "random_forest_model")
  /\ reg_version' = Len(versions) + 1
  /\ reg_ret' = 0
  /\ regpc' = "alias"
  /\ UNCHANGED <<aliases, globals, nbpc, model_version, new_model_version, loaded, nbruns>>

\* lines 139-140 as they would be if the alias call were left for after the wait.
register_model_alias_late ==
  /\ UNCHANGED notReg
  /\ regpc = "alias"
  /\ regpc' = "sleep"
  /\ UNCHANGED <<versions, aliases, globals, nbpc, reg_arg, reg_version, reg_ret,
                 model_version, new_model_version, loaded, nbruns>>

\* lines 139-140: the alias "production" is set on the version just created.
register_model_alias ==
  /\ UNCHANGED notReg
  /\ regpc = "alias"
  /\ aliases' = set_registered_model_alias(aliases, "production", reg_version)
  /\ regpc' = "sleep"
  /\ UNCHANGED <<versions, globals, nbpc, reg_arg, reg_version, reg_ret, model_version,
                 new_model_version, loaded, nbruns>>

\* lines 141-142: the fixed wait, then the version is returned; line 165 binds it.
register_model_return ==
  /\ UNCHANGED notReg
  /\ regpc = "sleep"
  /\ reg_ret' = reg_version
  /\ model_version' = reg_version
  /\ globals' = globals \cup {"experiment", "run_id", "model_version"}
  /\ regpc' = "idle"
  /\ nbpc' = "restart"
  /\ UNCHANGED <<versions, aliases, reg_arg, reg_version, new_model_version, loaded,
                 nbruns>>

\* line 181: dbutils.library.restartPython() clears the interpreter's namespace.
restartPython ==
  /\ UNCHANGED notReg
  /\ nbpc = "restart"
  /\ globals' = {}
  /\ model_version' = 0
  /\ new_model_version' = 0
  /\ nbpc' = "baseline"
  /\ UNCHANGED <<versions, aliases, regpc, reg_arg, reg_version, reg_ret, loaded, nbruns>>

\* lines 285-293: the baseline run is registered at top level.
register_baseline ==
  /\ UNCHANGED notReg
  /\ nbpc = "baseline"
  /\ \E run_id \in RunIds :
       versions' = mlflow_register_model(versions, run_id, "random_forest_model")
  /\ model_version' = Len(versions) + 1
  /\ globals' = globals \cup {"run_id", "model_name", "model_version"}
  /\ nbpc' = "sweep"
  /\ UNCHANGED <<aliases, regpc, reg_arg, reg_version, reg_ret, new_model_version, loaded, nbruns>>

\* lines 495-503: the sweep's best run is registered as a new version.
register_best_run ==
  /\ UNCHANGED notReg
  /\ nbpc = "sweep"
  /\ \E run_id \in RunIds :
       versions' = mlflow_register_model(versions, run_id, "model")
  /\ new_model_version' = Len(versions) + 1
  /\ globals' = globals \cup {"best_run", "new_model_version"}
  /\ nbpc' = "archive"
  /\ UNCHANGED <<aliases, regpc, reg_arg, reg_version, reg_ret, model_version, loaded, nbruns>>

\* A cell's statement runs only if every name it reads is bound at top level;
\* otherwise it raises NameError and changes nothing.
Bound(names) == names \subseteq globals

\* lines 514-518: archive the old version.
archive_old ==
  /\ UNCHANGED notReg
  /\ nbpc = "archive"
  /\ versions' = IF Bound({"client", "model_name", "model_version"})
                 THEN transition_model_version_stage(versions, model_version, "Archived")
                 ELSE versions
  /\ nbpc' = "promote"
  /\ UNCHANGED <<aliases, globals, regpc, reg_arg, reg_version, reg_ret, model_version,
                 new_model_version, loaded, nbruns>>

\* lines 521-525: promote the new version.
promote_new ==
  /\ UNCHANGED notReg
  /\ nbpc = "promote"
  /\ versions' = IF Bound({"client", "model_name", "new_model_version"})
                 THEN transition_model_version_stage(versions, new_model_version,
                                                     "Production")
                 ELSE versions
  /\ nbpc' = "load"
  /\ UNCHANGED <<aliases, globals, regpc, reg_arg, reg_version, reg_ret, model_version,
                 new_model_version, loaded, nbruns>>

\* line 534: mlflow.pyfunc.load_model(f"models:/{model_name}/production").
load_model ==
  /\ UNCHANGED notReg
  /\ nbpc = "load"
  /\ loaded' = production_version(versions)
  /\ nbpc' = "udf"
  /\ UNCHANGED <<versions, aliases, globals, regpc, reg_arg, reg_version, reg_ret, model_version,
                 new_model_version, nbruns>>

\* line 568: mlflow.pyfunc.spark_udf(spark, f"models:/{model_name}/production").
spark_udf ==
  /\ UNCHANGED notReg
  /\ nbpc = "udf"
  /\ loaded' = production_version(versions)
  /\ nbpc' = "end"
  /\ UNCHANGED <<versions, aliases, globals, regpc, reg_arg, reg_version, reg_ret, model_version,
                 new_model_version, nbruns>>

\* The notebook is run again from the top against the same registry.
run_again ==
  /\ UNCHANGED notReg
  /\ nbpc = "end"
  /\ nbruns < MaxReruns
  /\ nbruns' = nbruns + 1
  /\ nbpc' = "main"
  /\ UNCHANGED <<versions, aliases, globals, regpc, reg_arg, reg_version, reg_ret, model_version,
                 new_model_version, loaded>>

InitReg == TrackIdle /\ RegIdle /\ SweepIdle /\ SplitIdle /\ ModelIdle

NextReg ==
  \/ register_model_create
  \/ register_model_alias
  \/ register_model_return
  \/ restartPython
  \/ register_baseline
  \/ register_best_run
  \/ archive_old
  \/ promote_new
  \/ load_model
  \/ spark_udf
  \/ run_again

SpecReg == InitReg /\ [][NextReg]_vars

\* C3: once the promotion sequence has run, every load of
\* models:/<model_name>/production resolves to the new version.
C3_LoadResolvesToNewVersion ==
  nbpc \in {"udf", "end"} => loaded = new_model_version

C5_RegisterAppendsOneVersion ==
  [][/\ regpc = "idle" /\ regpc' = "alias" =>
          /\ Len(versions') = Len(versions) + 1
          /\ versions'[Len(versions')].run = reg_arg'
          /\ reg_version' = Len(versions')
          /\ versions'[Len(versions')].path = "random_forest_model"
          /\ SubSeq(versions', 1, Len(versions)) = versions
     /\ regpc = "sleep" /\ regpc' = "idle" =>
          /\ reg_ret' = reg_version /\ reg_ret' = Len(versions)
          /\ versions[reg_ret'].run = reg_arg
          /\ versions' = versions
     /\ nbpc = "sweep" /\ nbpc' = "archive" =>
          /\ Len(versions') = Len(versions) + 1
          /\ new_model_version' = Len(versions')
          /\ versions'[new_model_version'].run \in RunIds
          /\ SubSeq(versions', 1, Len(versions)) = versions]_vars

\* A second call has returned its version, registered on top of earlier ones.
C5_Witness ==
  /\ nbruns = 1
  /\ nbpc = "restart"
  /\ reg_ret = 4
  /\ versions[4].run = reg_arg
  /\ versions[1].run # reg_arg

\* C13: after any sequence of register_model calls the alias "production" points
\* to the version the most recent call returned, and each call has assigned the
\* alias to its version by the time its 15-second wait begins.
C13_AliasFollowsLatestCall ==
  /\ regpc = "alias" => reg_version \notin HoldsAlias(aliases, "production")
  /\ regpc = "sleep" => HoldsAlias(aliases, "production") = {reg_version}
  /\ regpc = "idle" /\ reg_ret # 0 =>
       /\ HoldsAlias(aliases, "production") = {reg_ret}
       /\ reg_ret = reg_version

\* A second call is in its wait: the alias has already left the first call's
\* version, with versions registered at top level in between.
C13_Witness ==
  /\ regpc = "sleep"
  /\ nbruns = 1
  /\ reg_version = 4
  /\ aliases = {<<"production", 4>>}
  /\ Len(versions) = 4

(***************************************************************************)
(* Hyperparameter sweep: fmin over train_model with SparkTrials            *)
(***************************************************************************)
parallelism == 10   \* SparkTrials(parallelism=10)
max_evals == 96     \* fmin(max_evals=96)
MaxAuc == 2         \* auc values are ranks 1..MaxAuc; 0 stands for no auc logged

Aucs == 1..MaxAuc
Max2(a, b) == IF a >= b THEN a ELSE b
Min2(a, b) == IF a <= b THEN a ELSE b

\* Trials of the budget other than the watched one, by state.
OthersPending == (max_evals - dispatched) - (IF watch = "Pending" THEN 1 ELSE 0)
OthersRunning == running - (IF watch = "Running" THEN 1 ELSE 0)

\* lines 465-466: the parent run is opened and fmin starts.
fmin_start ==
  /\ UNCHANGED notSweep
  /\ swpc = "idle"
  /\ swpc' = "fmin"
  /\ UNCHANGED <<dispatched, running, watch, trial_auc, best_loss, ok_auc, failed_auc,
                 other_auc, best_run>>

\* SparkTrials launches a pending trial while fewer than parallelism are running
\* and the budget of max_evals is not used up.
CanDispatchUnbounded == dispatched < max_evals
CanDispatch == dispatched < max_evals /\ running < parallelism

dispatch ==
  /\ UNCHANGED notSweep
  /\ swpc = "fmin"
  /\ CanDispatch
  /\ \/ watch = "Pending" /\ watch' = "Running"
     \/ OthersPending > 0 /\ watch' = watch
  /\ dispatched' = dispatched + 1
  /\ running' = running + 1
  /\ UNCHANGED <<swpc, trial_auc, best_loss, ok_auc, failed_auc, other_auc, best_run>>

\* lines 439-457: train_model runs to its return; the trial's run carries the auc and
\* the trial reports loss = -auc with STATUS_OK.
trial_succeeds ==
  /\ UNCHANGED notSweep
  /\ swpc = "fmin"
  /\ \E a \in Aucs :
       /\ \/ watch = "Running" /\ watch' = "Succeeded" /\ trial_auc' = a
          \/ OthersRunning > 0 /\ UNCHANGED <<watch, trial_auc>>
       /\ ok_auc' = Max2(ok_auc, a)
       /\ best_loss' = Min2(best_loss, -1 * a)
  /\ running' = running - 1
  /\ UNCHANGED <<swpc, dispatched, failed_auc, other_auc, best_run>>

\* The sweep's position after a trial raised: SparkTrials records the error on the
\* trial and fmin goes on.
after_failure_abort(p) == "aborted"
after_failure(p) == p

\* lines 442-454: train_model raises, before line 451 (a = 0, nothing logged) or
\* after it (the trial's run already carries the auc); the with block closes the
\* nested run as failed and the exception reaches SparkTrials.
trial_fails ==
  /\ UNCHANGED notSweep
  /\ swpc = "fmin"
  /\ \E a \in 0..MaxAuc :
       /\ \/ watch = "Running" /\ watch' = "Failed" /\ trial_auc' = a
          \/ OthersRunning > 0 /\ UNCHANGED <<watch, trial_auc>>
       /\ failed_auc' = Max2(failed_auc, a)
  /\ running' = running - 1
  /\ swpc' = after_failure(swpc)
  /\ UNCHANGED <<dispatched, best_loss, ok_auc, other_auc, best_run>>

\* lines 466-472: fmin returns the argmin over the trials that reported STATUS_OK
\* once every trial of the budget has ended; it raises when none succeeded.
fmin_return ==
  /\ UNCHANGED notSweep
  /\ swpc = "fmin"
  /\ dispatched = max_evals /\ running = 0
  /\ swpc' = IF ok_auc > 0 THEN "done" ELSE "all_failed"
  /\ UNCHANGED <<dispatched, running, watch, trial_auc, best_loss, ok_auc, failed_auc,
                 other_auc, best_run>>

\* mlflow.search_runs(order_by=['metrics.auc DESC']).iloc[0]: the runs of the whole
\* experiment, greatest auc first, runs without the metric last; ties fall either way.
best_run_candidates(ok, failed, other) ==
  LET top == Max2(ok, Max2(failed, other))
      with_auc == {[kind |-> "succeeded_trial", auc |-> ok],
                   [kind |-> "failed_trial", auc |-> failed],
                   [kind |-> "other_run", auc |-> other]}
  IN IF top = 0 THEN {[kind |-> "no_metric", auc |-> 0]}
     ELSE {r \in with_auc : r.auc = top}

\* line 495
select_best_run ==
  /\ UNCHANGED notSweep
  /\ swpc \in {"done", "all_failed"}
  /\ best_run' \in best_run_candidates(ok_auc, failed_auc, other_auc)
  /\ swpc' = "selected"
  /\ UNCHANGED <<dispatched, running, watch, trial_auc, best_loss, ok_auc, failed_auc,
                 other_auc>>

\* The experiment may already hold runs that logged auc: the baseline run of lines
\* 257-267 does.
InitSweep ==
  /\ TrackIdle /\ RegIdle /\ SplitIdle /\ ModelIdle
  /\ swpc = "idle" /\ dispatched = 0 /\ running = 0
  /\ watch = "Pending" /\ trial_auc = 0 /\ best_loss = 1
  /\ ok_auc = 0 /\ failed_auc = 0 /\ other_auc \in 0..MaxAuc
  /\ best_run = [kind |-> "none", auc |-> 0]

NextSweep ==
  \/ fmin_start
  \/ dispatch
  \/ trial_succeeds
  \/ trial_fails
  \/ fmin_return
  \/ select_best_run

SpecSweep == InitSweep /\ [][NextSweep]_vars

\* C6: the run selected as best is a succeeded sweep trial whose loss is at most
\* that of every other completed trial.
C6_BestRunIsBestTrial ==
  swpc = "selected" /\ ok_auc > 0 =>
    /\ best_run.kind = "succeeded_trial"
    /\ best_run.auc >= ok_auc
    /\ watch = "Succeeded" => best_run.auc >= trial_auc

\* C7: a trial that raised stays Failed and is never run again; its failure leaves
\* the sweep running; fmin ends only when every trial of the budget has ended, and
\* its best is the least loss among the succeeded trials.
C7_FailedTrialDoesNotAbort ==
  [][/\ watch = "Failed" => watch' = "Failed" /\ trial_auc' = trial_auc
     /\ watch # "Failed" /\ watch' = "Failed" => swpc' = "fmin"
     /\ failed_auc' # failed_auc => swpc' = "fmin" /\ best_loss' = best_loss
     /\ swpc = "fmin" /\ swpc' # "fmin" =>
          /\ dispatched = max_evals /\ running = 0
          /\ watch \in {"Succeeded", "Failed"}
          /\ swpc' = "done" <=> ok_auc > 0
     /\ swpc' = "done" => best_loss' = -1 * ok_auc'
     /\ dispatched' <= max_evals]_vars

\* The sweep completed although the watched trial failed.
C7_Witness ==
  /\ swpc = "done"
  /\ watch = "Failed"
  /\ dispatched = max_evals
  /\ best_loss < 0

\* C8: at most parallelism trials are Running, at most max_evals trials ever leave
\* Pending, and a trial moves only Pending -> Running -> Succeeded or Failed.
C8_SweepBounds ==
  /\ [](running <= parallelism /\ dispatched <= max_evals /\ running <= dispatched)
  /\ [][/\ <<watch, watch'>> \in {<<"Pending", "Running">>, <<"Running", "Succeeded">>,
                                  <<"Running", "Failed">>}
           \cup {<<w, w>> : w \in {"Pending", "Running", "Succeeded", "Failed"}}
        /\ dispatched' >= dispatched]_vars

\* The budget is used up and parallelism trials have been running at once.
C8_Witness ==
  /\ running = parallelism
  /\ dispatched = max_evals
  /\ watch = "Running"

(***************************************************************************)
(* Dataset preparer: WineDataProcessor.split_data                          *)
(***************************************************************************)
MaxRows == 4       \* rows of self.data explored: 0..MaxRows
Denom == 4         \* test_size and val_size range over 0/Denom .. Denom/Denom

\* The ratios are doubles. Multiples of 1/2, 1/4, 1/8 are exact and so are the sizes
\* computed from them; for other ratios (0.2 is one) a product that is a whole number
\* in exact arithmetic may come out just below it or just above it. Ulps holds the
\* signs that error can have.
Ulps == IF Denom \in {1, 2, 4, 8} THEN {0} ELSE {-1, 0, 1}

\* floor(num/den * n) and ceil(num/den * n) as the double arithmetic yields them.
FloorMul(num, den, n, ulp) ==
  IF (num * n) % den = 0 /\ ulp = -1 /\ num * n > 0
  THEN (num * n) \div den - 1
  ELSE (num * n) \div den
CeilMul(num, den, n, ulp) ==
  IF (num * n) % den = 0
  THEN (num * n) \div den + (IF ulp = 1 /\ num * n > 0 THEN 1 ELSE 0)
  ELSE (num * n) \div den + 1

\* The shuffles of n positions; random_state=123 fixes one of them per n.
Perms(n) == {p \in [1..n -> 1..n] : \A i, j \in 1..n : p[i] = p[j] => i = j}

\* train_test_split takes the first n_test shuffled positions as the test part and
\* the next n_train as the train part.
ind_test(perm, n_test) == SubSeq(perm, 1, n_test)
ind_train_overlap(perm, n_test, n_train) == SubSeq(perm, n_test, n_test + n_train - 1)
ind_train(perm, n_test, n_train) == SubSeq(perm, n_test + 1, n_test + n_train)

Take(X, ind) == [i \in 1..Len(ind) |-> X[ind[i]]]
Range(X) == {X[i] : i \in 1..Len(X)}

\* line 78 as it would be if the train part were sized without validating the
\* fraction: at least one row is kept whatever train_size comes to.
split_first_unchecked ==
  /\ UNCHANGED notSplit
  /\ sppc = "idle"
  /\ LET num == Denom - test_size - val_size
     IN \E ulp \in Ulps, perm \in Perms(rows) :
          LET f == FloorMul(num, Denom, rows, ulp)
              n_train == IF f <= 0 THEN 1 ELSE f
              n_test == rows - n_train
              X == [i \in 1..rows |-> i]
          IN IF rows = 0
             THEN /\ sppc' = "raised"
                  /\ UNCHANGED <<X_train, X_rem>>
             ELSE /\ sppc' = "second"
                  /\ X_train' = Take(X, ind_train(perm, n_test, n_train))
                  /\ X_rem' = Take(X, ind_test(perm, n_test))
  /\ UNCHANGED <<rows, test_size, val_size, X_val, X_test>>

\* line 78: train_test_split(X, y, train_size=1-test_size-val_size, random_state=123).
\* A float train_size outside (0, 1) is refused, and so is an empty train part.
split_first ==
  /\ UNCHANGED notSplit
  /\ sppc = "idle"
  /\ LET num == Denom - test_size - val_size
     IN \E ulp \in Ulps, perm \in Perms(rows) :
          LET n_train == FloorMul(num, Denom, rows, ulp)
              n_test == rows - n_train
              X == [i \in 1..rows |-> i]
          IN IF num < 0 \/ (num = 0 /\ ulp # 1) \/ num >= Denom \/ n_train <= 0
             THEN /\ sppc' = "raised"
                  /\ UNCHANGED <<X_train, X_rem>>
             ELSE /\ sppc' = "second"
                  /\ X_train' = Take(X, ind_train(perm, n_test, n_train))
                  /\ X_rem' = Take(X, ind_test(perm, n_test))
  /\ UNCHANGED <<rows, test_size, val_size, X_val, X_test>>

\* line 79: train_test_split(X_rem, y_rem, test_size=val_size/(test_size+val_size),
\* random_state=123); its train part is returned as X_val, its test part as X_test.
split_second ==
  /\ UNCHANGED notSplit
  /\ sppc = "second"
  /\ \E ulp \in Ulps, perm \in Perms(Len(X_rem)) :
       LET n_test == CeilMul(val_size, test_size + val_size, Len(X_rem), ulp)
           n_train == Len(X_rem) - n_test
       IN IF val_size = 0 \/ test_size = 0 \/ n_train <= 0
          THEN /\ sppc' = "raised"
               /\ UNCHANGED <<X_val, X_test>>
          ELSE /\ sppc' = "returned"
               /\ X_val' = Take(X_rem, ind_train(perm, n_test, n_train))
               /\ X_test' = Take(X_rem, ind_test(perm, n_test))
  /\ UNCHANGED <<rows, test_size, val_size, X_train, X_rem>>

InitSplit ==
  /\ TrackIdle /\ RegIdle /\ SweepIdle /\ ModelIdle
  /\ sppc = "idle"
  /\ rows \in 0..MaxRows
  /\ test_size \in 0..Denom
  /\ val_size \in 0..Denom
  /\ X_train = <<>> /\ X_rem = <<>> /\ X_val = <<>> /\ X_test = <<>>

NextSplit ==
  \/ split_first
  \/ split_second

SpecSplit == InitSplit /\ [][NextSplit]_vars

Disjoint3(A, B, C) == A \cap B = {} /\ A \cap C = {} /\ B \cap C = {}

IsPartition ==
  /\ Disjoint3(Range(X_train), Range(X_val), Range(X_test))
  /\ Cardinality(Range(X_train)) = Len(X_train)
  /\ Cardinality(Range(X_val)) = Len(X_val)
  /\ Cardinality(Range(X_test)) = Len(X_test)
  /\ Len(X_train) + Len(X_val) + Len(X_test) = rows
  /\ Range(X_train) \cup Range(X_val) \cup Range(X_test) = 1..rows

\* C9 as stated: for every dataset of two rows or more and every pair of positive
\* ratios that leaves a positive train fraction, split_data returns three pairwise
\* disjoint row sets whose sizes sum to the number of rows.
C9_SplitAlwaysReturnsPartition ==
  rows >= 2 /\ test_size > 0 /\ val_size > 0 /\ test_size + val_size < Denom =>
    /\ sppc # "raised"
    /\ sppc = "returned" => IsPartition

\* C9 as amended: whenever split_data returns, the three row sets are pairwise
\* disjoint and their sizes sum to the number of rows; it returns only for a
\* dataset of at least three rows, each part getting at least one.
C9_ReturnedSplitIsPartition ==
  sppc = "returned" =>
    /\ IsPartition
    /\ rows >= 3
    /\ Len(X_train) >= 1 /\ Len(X_val) >= 1 /\ Len(X_test) >= 1

\* A three-row dataset split one row each.
C9_Witness ==
  /\ sppc = "returned"
  /\ rows = 3
  /\ test_size + val_size < Denom
  /\ Len(X_train) = 1 /\ Len(X_val) = 1 /\ Len(X_test) = 1

\* C12: when test_size + val_size is not below 1, split_data raises: it never gets
\* past its first train_test_split call and returns no partition.
C12_SplitRejectsNoTrainFraction ==
  test_size + val_size >= Denom =>
    /\ sppc \in {"idle", "raised"}
    /\ X_train = <<>> /\ X_rem = <<>> /\ X_val = <<>> /\ X_test = <<>>

\* split_data has raised on ratios that sum to exactly 1, on a dataset large enough
\* to be split otherwise.
C12_Witness ==
  /\ sppc = "raised"
  /\ rows = MaxRows
  /\ test_size > 0 /\ val_size > 0
  /\ test_size + val_size = Denom

(***************************************************************************)
(* Model trainer: WineQualityModel                                         *)
(***************************************************************************)
MaxModels == 3     \* WineQualityModel instances constructed

\* line 93: the default of the model parameter is evaluated once, when the class is
\* defined; every WineQualityModel() wraps that one estimator object.
DefaultEstimator == 1

\* WineQualityModel(): self.model is the default estimator.
construct_default ==
  /\ UNCHANGED notModel
  /\ Len(estimator) < MaxModels
  /\ estimator' = Append(estimator, DefaultEstimator)
  /\ trained' = Append(trained, FALSE)
  /\ evaluated' = Append(evaluated, "none")
  /\ UNCHANGED fitted

\* WineQualityModel(model=m) with an estimator m the caller has just built.
construct_with_model ==
  /\ UNCHANGED notModel
  /\ Len(estimator) < MaxModels
  /\ fitted' = Append(fitted, FALSE)
  /\ estimator' = Append(estimator, Len(fitted) + 1)
  /\ trained' = Append(trained, FALSE)
  /\ evaluated' = Append(evaluated, "none")

\* lines 96-98: self.model.fit(X_train, y_train) fits the wrapped estimator in place.
train ==
  /\ UNCHANGED notModel
  /\ \E i \in 1..Len(estimator) :
       /\ fitted' = [fitted EXCEPT ![estimator[i]] = TRUE]
       /\ trained' = [trained EXCEPT ![i] = TRUE]
  /\ UNCHANGED <<estimator, evaluated>>

\* lines 100-104: predict_proba raises NotFittedError on an estimator that was never
\* fitted; roc_auc_score raises ValueError when y_test holds a single class.
evaluate_outcome(is_fitted, two_classes) ==
  IF ~is_fitted THEN "NotFittedError"
  ELSE IF two_classes THEN "auc" ELSE "ValueError"

evaluate ==
  /\ UNCHANGED notModel
  /\ \E i \in 1..Len(estimator), two_classes \in BOOLEAN :
       evaluated' = [evaluated EXCEPT
                       ![i] = evaluate_outcome(fitted[estimator[i]], two_classes)]
  /\ UNCHANGED <<estimator, fitted, trained>>

\* The default estimator exists, unfitted, once the class is defined.
InitModel ==
  /\ TrackIdle /\ RegIdle /\ SweepIdle /\ SplitIdle
  /\ estimator = <<>> /\ fitted = <<FALSE>> /\ trained = <<>> /\ evaluated = <<>>

NextModel ==
  \/ construct_default
  \/ construct_with_model
  \/ train
  \/ evaluate

SpecModel == InitModel /\ [][NextModel]_vars

\* C10: evaluate returns an auc only on a model on which train has been called; on
\* a model on which it never was, evaluate fails and returns no auc.
C10_EvaluateNeedsTrain ==
  \A i \in 1..Len(estimator) : evaluated[i] = "auc" => trained[i]

====
